---- MODULE Spec2Model ----
(***************************************************************************)
(* Information flow between Parent and its two Child components.           *)
(*                                                                         *)
(* Parent owns two state cells, color and childrenColor.  Each Child       *)
(* receives childrenColor as its color prop and Parent's handleChangeColor *)
(* as its onChangeColor prop.  A click on a Child runs handleClick, which  *)
(* draws a color from getRandomColor and calls onChangeColor with it;      *)
(* handleChangeColor draws a second color for Parent itself and sets both  *)
(* cells.  The framework then runs a render pass, which re-runs Parent's   *)
(* body and both Child bodies.                                             *)
(*                                                                         *)
(* An event handler runs to completion on the single JavaScript thread, so *)
(* a click is one step; the render pass that follows is another.           *)
(***************************************************************************)
EXTENDS Naturals, Sequences, FiniteSets

\* Number of clicks explored.
MaxClicks == 3

\* Number of distinct values the color generator may return.
NumColors == 3

Palette == <<"#AA11BB", "#00FF00", "#123ABC", "#0083C6", "#F2C14E", "#7D3C98">>

\* randomColorGenerator.getRandomColor: the set of values one call may return.
getRandomColor == {Palette[i] : i \in 1..NumColors}

\* Mutant: childrenColor starts from a generated color, as color does.
DefaultChildrenColorRandom == Palette[1]

\* The initial value of the childrenColor cell.
DefaultChildrenColor == "#FFF"

\* The two <Child/> elements Parent renders.
Children == {"A", "B"}

VARIABLES
    color,          \* Parent's color state cell
    childrenColor,  \* Parent's childrenColor state cell
    dom,            \* what the last render pass produced
    pending,        \* a render pass is scheduled
    calls,          \* the calls made while handling the most recent click, in order
    history,        \* per click handled: the Child clicked and the color it generated
    writes,         \* how many times each cell's setter has been called
    lastRender      \* the last render pass: the generator value Parent's body drew,
                    \* and the setter counts it observed

vars == <<color, childrenColor, dom, pending, calls, history, writes, lastRender>>

----------------------------------------------------------------------------
(* Rendering *)

\* Mutant: the background left hard-coded, the color prop ignored.
ChildHardCoded(colorProp) == [backgroundColor |-> "#FFF"]

\* Child's returned element: a div whose background is the color prop.
Child(colorProp) == [backgroundColor |-> colorProp]

\* Mutant: the second Child element is passed Parent's own color.
ChildColorPropSplit(child, parentColor, chColor) ==
    IF child = "B" THEN parentColor ELSE chColor

\* The color prop Parent passes to each Child element.
ChildColorProp(child, parentColor, chColor) == chColor

\* Parent's returned element: a div with its own color, holding two Child elements.
Parent(parentColor, chColor) ==
    [backgroundColor |-> parentColor,
     children |-> [c \in Children |-> Child(ChildColorProp(c, parentColor, chColor))]]

\* Mutant: the cell is re-initialised on every render pass.
useStateReinit(current, initialValue) == initialValue

\* useState(initialValue) on a mounted component: the stored cell, not the argument.
useState(current, initialValue) == current

----------------------------------------------------------------------------
(* Event handlers *)

\* The calls handleChangeColor makes, after the caller's.
ParentCalls(newRandomColor, colorSet, childrenSet) ==
    << [fn |-> "getRandomColor", by |-> "Parent", val |-> newRandomColor],
       [fn |-> "setColor", by |-> "Parent", val |-> colorSet],
       [fn |-> "setChildrenColor", by |-> "Parent", val |-> childrenSet] >>

BothWritten ==
    [color |-> writes.color + 1, childrenColor |-> writes.childrenColor + 1]

\* Mutant: childrenColor is set only while it still holds the default.
handleChangeColorKeepFirst(newChildColor, log) ==
    \E newRandomColor \in getRandomColor :
        LET kept == IF childrenColor = DefaultChildrenColor
                    THEN newChildColor ELSE childrenColor
        IN  /\ color' = newRandomColor
            /\ childrenColor' = kept
            /\ writes' = BothWritten
            /\ pending' = TRUE
            /\ calls' = log \o ParentCalls(newRandomColor, newRandomColor, kept)
            /\ UNCHANGED <<dom, lastRender>>

\* Mutant: Parent's color is set to the argument, not to the generated value.
handleChangeColorUseArgument(newChildColor, log) ==
    \E newRandomColor \in getRandomColor :
        /\ color' = newChildColor
        /\ childrenColor' = newChildColor
        /\ writes' = BothWritten
        /\ pending' = TRUE
        /\ calls' = log \o ParentCalls(newRandomColor, newChildColor, newChildColor)
        /\ UNCHANGED <<dom, lastRender>>

\* Mutant: setColor is left out.
handleChangeColorNoSetColor(newChildColor, log) ==
    \E newRandomColor \in getRandomColor :
        /\ color' = color
        /\ childrenColor' = newChildColor
        /\ writes' = [writes EXCEPT !.childrenColor = @ + 1]
        /\ pending' = TRUE
        /\ calls' = log \o
             << [fn |-> "getRandomColor", by |-> "Parent", val |-> newRandomColor],
                [fn |-> "setChildrenColor", by |-> "Parent", val |-> newChildColor] >>
        /\ UNCHANGED <<dom, lastRender>>

\* Mutant: a render pass is flushed between setColor and setChildrenColor.
handleChangeColorFlush(newChildColor, log) ==
    \E newRandomColor \in getRandomColor :
        /\ color' = newRandomColor
        /\ dom' = Parent(newRandomColor, childrenColor)
        /\ lastRender' = [randomColor |-> newRandomColor,
                          writes |-> [writes EXCEPT !.color = @ + 1]]
        /\ childrenColor' = newChildColor
        /\ writes' = BothWritten
        /\ pending' = TRUE
        /\ calls' = log \o ParentCalls(newRandomColor, newRandomColor, newChildColor)

\* Mutant: childrenColor is set to Parent's generated value.
handleChangeColorOwnValue(newChildColor, log) ==
    \E newRandomColor \in getRandomColor :
        /\ color' = newRandomColor
        /\ childrenColor' = newRandomColor
        /\ writes' = BothWritten
        /\ pending' = TRUE
        /\ calls' = log \o ParentCalls(newRandomColor, newRandomColor, newRandomColor)
        /\ UNCHANGED <<dom, lastRender>>

\* Parent.handleChangeColor(newChildColor); log holds the caller's calls so far.
handleChangeColor(newChildColor, log) ==
    \E newRandomColor \in getRandomColor :
        /\ color' = newRandomColor
        /\ childrenColor' = newChildColor
        /\ writes' = BothWritten
        /\ pending' = TRUE
        /\ calls' = log \o ParentCalls(newRandomColor, newRandomColor, newChildColor)
        /\ UNCHANGED <<dom, lastRender>>

\* The calls handleClick makes before onChangeColor's own.
ChildCalls(child, generated, passed) ==
    << [fn |-> "getRandomColor", by |-> child, val |-> generated],
       [fn |-> "onChangeColor", by |-> child, val |-> passed] >>

\* Mutant: the Child passes its current color prop, not the generated color.
handleClickPassProp(child) ==
    \E newColor \in getRandomColor :
        LET prop == dom.children[child].backgroundColor
        IN  /\ history' = Append(history, [child |-> child, newColor |-> newColor])
            /\ handleChangeColor(prop, ChildCalls(child, newColor, prop))

\* Child.handleClick of the given Child element.
handleClick(child) ==
    \E newColor \in getRandomColor :
        /\ history' = Append(history, [child |-> child, newColor |-> newColor])
        /\ handleChangeColor(newColor, ChildCalls(child, newColor, newColor))

----------------------------------------------------------------------------
(* Steps *)

Init ==
    /\ color \in getRandomColor
    /\ childrenColor = DefaultChildrenColor
    /\ dom = Parent(color, childrenColor)
    /\ pending = FALSE
    /\ calls = << >>
    /\ history = << >>
    /\ writes = [color |-> 0, childrenColor |-> 0]
    /\ lastRender = [randomColor |-> color, writes |-> writes]

\* The user clicks a Child's div.
Click(child) ==
    /\ Len(history) < MaxClicks
    /\ handleClick(child)

\* The framework re-renders Parent and its children.
Render ==
    /\ pending
    /\ \E randomColor \in getRandomColor :
        /\ color' = useState(color, randomColor)
        /\ childrenColor' = useState(childrenColor, DefaultChildrenColor)
        /\ dom' = Parent(color', childrenColor')
        /\ lastRender' = [randomColor |-> randomColor, writes |-> writes]
    /\ pending' = FALSE
    /\ UNCHANGED <<calls, history, writes>>

Next ==
    \/ \E child \in Children : Click(child)
    \/ Render

Spec == Init /\ [][Next]_vars

----------------------------------------------------------------------------
(* Properties *)

Clicked == history # << >>

LastClick == history[Len(history)]

\* A step that handles one click.
HandlerStep == Len(history') = Len(history) + 1

CallsBy(log, who) == SelectSeq(log, LAMBDA e : e.by = who)

CallsOf(log, fn) == SelectSeq(log, LAMBDA e : e.fn = fn)

\* The values Child click handlers have drawn from the generator so far.
ChildGenerated == {history[i].newColor : i \in 1..Len(history)}

Shown(child) == dom.children[child].backgroundColor

\* C1: both Child elements are rendered with the same color in every state,
\* and once the scheduled render pass has run that color is the childrenColor cell.
C1_SharedColor ==
    /\ Shown("A") = Shown("B")
    /\ ~pending => \A c \in Children : Shown(c) = childrenColor

C1_Witness ==
    /\ ~pending
    /\ Len(history) = 2
    /\ history[1].child # history[2].child
    /\ Shown("A") = Shown("B")
    /\ Shown("A") # DefaultChildrenColor
    /\ Shown("A") # dom.backgroundColor

\* C2: a step that runs handleChangeColor(c) leaves the childrenColor cell equal
\* to c, the argument of the onChangeColor call, whatever the cell held before.
C2_ChildrenColorIsArgument ==
    [][HandlerStep =>
         /\ Len(CallsOf(calls', "onChangeColor")) = 1
         /\ childrenColor' = CallsOf(calls', "onChangeColor")[1].val]_vars

C2_Witness ==
    /\ Len(history) = 2
    /\ history[1].newColor = "#AA11BB"
    /\ CallsOf(calls, "onChangeColor")[1].val = "#123ABC"
    /\ childrenColor = "#123ABC"

\* C3: handling a click, the Child makes exactly two calls, first one call of the
\* generator and then one call of onChangeColor, and that call's argument is the
\* value the generator call returned; these come before any call Parent makes.
C3_GenerateThenNotify ==
    Clicked =>
        LET mine == CallsBy(calls, LastClick.child)
        IN  /\ Len(mine) = 2
            /\ SubSeq(calls, 1, 2) = mine
            /\ mine[1].fn = "getRandomColor"
            /\ mine[2].fn = "onChangeColor"
            /\ mine[2].val = mine[1].val
            /\ \A c \in Children \ {LastClick.child} : CallsBy(calls, c) = << >>
            /\ Len(CallsOf(calls, "onChangeColor")) = 1

C3_Witness ==
    /\ Clicked
    /\ calls[2].fn = "onChangeColor"
    /\ calls[2].val = calls[1].val
    /\ calls[2].val # Shown(LastClick.child)
    /\ calls[2].val # calls[3].val

\* C4: every step that runs handleChangeColor makes exactly one generator call
\* of Parent's own, calls setColor once, and leaves the color cell equal to the
\* value that generator call returned.
C4_ParentColorIsGenerated ==
    [][HandlerStep =>
         LET gen == CallsOf(CallsBy(calls', "Parent"), "getRandomColor")
         IN  /\ Len(gen) = 1
             /\ color' = gen[1].val
             /\ writes'.color = writes.color + 1
             /\ Len(CallsOf(calls', "setColor")) = 1]_vars

\* The assignment happened although the value equals the color shown before it.
C4_Witness ==
    /\ pending
    /\ Len(history) = 1
    /\ writes.color = 1
    /\ color = dom.backgroundColor
    /\ color # childrenColor

C6_InitialState ==
    ~Clicked =>
        /\ childrenColor = "#FFF"
        /\ \A c \in Children : Shown(c) = "#FFF"
        /\ color \in getRandomColor
        /\ color = lastRender.randomColor
        /\ dom.backgroundColor = color

C6_Witness ==
    /\ ~Clicked
    /\ ~pending
    /\ writes = [color |-> 0, childrenColor |-> 0]
    /\ Shown("A") = "#FFF"
    /\ Shown("B") = "#FFF"
    /\ dom.backgroundColor = "#00FF00"

\* C7: once the render pass after a click has run, both Child elements show the
\* color the most recent click generated, whichever Child was clicked; and a
\* click's effect on the cells is fixed by the generated values alone.
C7_LastClickWins ==
    /\ [](~pending /\ Clicked => \A c \in Children : Shown(c) = LastClick.newColor)
    /\ [][HandlerStep =>
            /\ childrenColor' = history'[Len(history')].newColor
            /\ color' = calls'[3].val
            /\ pending'
            /\ dom' = dom]_vars

C7_Witness ==
    /\ ~pending
    /\ Len(history) = 2
    /\ history[1] = [child |-> "A", newColor |-> "#AA11BB"]
    /\ history[2] = [child |-> "B", newColor |-> "#00FF00"]
    /\ Shown("A") = "#00FF00"
    /\ Shown("B") = "#00FF00"

\* C8: a step that handles no click (a render pass) leaves both cells and their
\* setter counts unchanged, and the only caller of a setter is Parent.
C8_OnlyHandlerWrites ==
    /\ [][~HandlerStep =>
            /\ color' = color
            /\ childrenColor' = childrenColor
            /\ writes' = writes]_vars
    /\ [](\A i \in 1..Len(calls) :
            calls[i].fn \in {"setColor", "setChildrenColor"} => calls[i].by = "Parent")

\* A render pass after a click drew a generator value other than the color cell
\* and the cell still holds what the handler set.
C8_Witness ==
    /\ Clicked
    /\ ~pending
    /\ lastRender.writes.color = Len(history)
    /\ lastRender.randomColor # color
    /\ color = CallsOf(calls, "setColor")[1].val
    /\ childrenColor = LastClick.newColor

\* C9: each click's handler has set both cells by the time any other step runs:
\* in every state both setters have been called once per click handled, and
\* every render pass observed equally many writes of the two cells.
C9_HandlerAtomic ==
    /\ writes.color = Len(history)
    /\ writes.childrenColor = Len(history)
    /\ lastRender.writes.color = lastRender.writes.childrenColor
    /\ Clicked => Len(calls) = 5

C9_Witness ==
    /\ ~pending
    /\ Len(history) = 2
    /\ lastRender.writes = [color |-> 2, childrenColor |-> 2]
    /\ dom.backgroundColor = color
    /\ Shown("A") = childrenColor

\* C10: the childrenColor cell holds "#FFF" or a value a Child's click handler
\* drew from the generator, hence always the default or a generator value.
C10_ChildrenColorProvenance ==
    /\ childrenColor \in {"#FFF"} \cup ChildGenerated
    /\ childrenColor \in {"#FFF"} \cup getRandomColor

C10_Witness ==
    /\ Clicked
    /\ childrenColor \in ChildGenerated
    /\ childrenColor # "#FFF"
    /\ color \notin ChildGenerated

====
